---- MODULE Spec2Model ----
(***************************************************************************)
(* Model of tidy3d/components/grid/grid_spec.py: the 1D grid              *)
(* specifications (UniformGrid, CustomGrid, AutoGrid), the shared          *)
(* GridSpec1d.make_coords pipeline (initial boundaries, symmetry fold,     *)
(* PML extension) and GridSpec.get_wavelength.                             *)
(*                                                                         *)
(* Coordinates are float64 values, as in the code (Python floats and numpy *)
(* float64 arrays).  A value is held exactly, as a whole number of 2^-56   *)
(* written in two limbs <<hi, lo>> (value = (hi * 2^30 + lo) * 2^-56,      *)
(* 0 <= lo < 2^30, hi of either sign), and every operation rounds its      *)
(* exact result to 53 significant bits, ties to even, as IEEE 754 does.    *)
(* The representation holds every float64 between 2^-4 and 16 in           *)
(* magnitude, zero, and every sum or difference of such values; the steps  *)
(* dl are whole numbers and are kept as integers.                          *)
(***************************************************************************)
EXTENDS Integers, Sequences, FiniteSets

VARIABLES op, grid, args, initial, folded, out, grid_spec, sources, wl

vars == <<op, grid, args, initial, folded, out, grid_spec, sources, wl>>

-----------------------------------------------------------------------------
(* Bounds of the model.                                                    *)

MaxDl == 3
MaxLen == 3
MaxSize == 3
MaxCenter == 1
MaxPml == 2
MaxMesh == 1
MaxIntervals == 2
MaxSources == 2

-----------------------------------------------------------------------------
(* float64 arithmetic.                                                     *)

(* weight of the limb hi, in units of the limb lo *)
Base == 2^30

(* lo is divided in two halves of 15 bits *)
HalfBase == 2^15

(* hi of the value 1.0 *)
WholeHi == 2^26

(* a magnitude whose hi is below this has at most 53 bits *)
ExactHi == 2^23

Zero == <<0, 0>>

(* float(n) for a whole number n *)
FromInt(n) == <<n * WholeHi, 0>>

(* float(h / 2) for a whole number h *)
FromHalves(h) == <<h * (WholeHi \div 2), 0>>

(* the float64 nearest to 0.1: 0x1.999999999999ap-4 *)
Tenth == <<6710886, 429496730>>

(* -x *)
Neg(x) == IF x[2] = 0 THEN <<-x[1], 0>> ELSE <<-x[1] - 1, Base - x[2]>>

(* x < y, x <= y, x >= y *)
FLt(x, y) == x[1] < y[1] \/ (x[1] = y[1] /\ x[2] < y[2])

FLe(x, y) == x[1] < y[1] \/ (x[1] = y[1] /\ x[2] <= y[2])

FGe(x, y) == FLe(y, x)

(* np.abs *)
FAbs(x) == IF x[1] < 0 THEN Neg(x) ELSE x

(* the sum before it is rounded *)
AddExact(x, y) ==
    LET s == x[2] + y[2]
    IN  <<x[1] + y[1] + (s \div Base), s % Base>>

(* k * x before it is rounded, k a whole number >= 0 *)
RECURSIVE TimesExact(_, _)
TimesExact(k, x) == IF k = 0 THEN Zero ELSE AddExact(x, TimesExact(k - 1, x))

(* how many bits a magnitude with this hi has beyond 53 *)
RECURSIVE ExtraBits(_)
ExtraBits(hi) == IF hi < ExactHi THEN 0 ELSE 1 + ExtraBits(hi \div 2)

(* a magnitude x >= 0 rounded to 53 significant bits, ties to even; inexact *)
(* tells that the exact value is a little above x                          *)
RoundMagnitude(x, inexact) ==
    IF x[1] < ExactHi \/ x[2] = 0 THEN x
    ELSE LET unit == 2^ExtraBits(x[1])
             r    == x[2] % unit
             down == x[2] - r
             up   == \/ 2 * r > unit
                     \/ 2 * r = unit /\ (inexact \/ (down \div unit) % 2 = 1)
         IN  IF ~up THEN <<x[1], down>>
             ELSE IF down + unit = Base THEN <<x[1] + 1, 0>>
             ELSE <<x[1], down + unit>>

Round(x) ==
    IF x[1] < 0 THEN Neg(RoundMagnitude(Neg(x), FALSE)) ELSE RoundMagnitude(x, FALSE)

(* x + y, x - y *)
FAdd(x, y) == Round(AddExact(x, y))

FSub(x, y) == Round(AddExact(x, Neg(y)))

(* float(k) * x for a whole number k >= 0 *)
FMulInt(k, x) == Round(TimesExact(k, x))

(* x / float(n) for x >= 0 and a whole number n > 0: long division limb by *)
(* limb, then rounding with the remainder                                  *)
FDivInt(x, n) ==
    LET t1  == (x[1] % n) * HalfBase + (x[2] \div HalfBase)
        t0  == (t1 % n) * HalfBase + (x[2] % HalfBase)
        q   == <<x[1] \div n, (t1 \div n) * HalfBase + (t0 \div n)>>
        rem == t0 % n
    IN  IF q[1] >= ExactHi THEN RoundMagnitude(q, rem /= 0)
        ELSE IF 2 * rem > n \/ (2 * rem = n /\ q[2] % 2 = 1) THEN AddExact(q, <<0, 1>>)
        ELSE q

(* int(np.ceil(x)) for x >= 0 *)
Ceil(x) == (x[1] \div WholeHi) + (IF x[1] % WholeHi /= 0 \/ x[2] /= 0 THEN 1 ELSE 0)

-----------------------------------------------------------------------------
(* Array helpers.                                                          *)

Abs(x) == IF x < 0 THEN -x ELSE x

Max(a, b) == IF a >= b THEN a ELSE b

RECURSIVE GCD(_, _)
GCD(a, b) == IF b = 0 THEN a ELSE GCD(b, a % b)

(* np.array of a list of whole numbers *)
Floats(s) == IF s = <<>> THEN <<>> ELSE [i \in 1..Len(s) |-> FromInt(s[i])]

(* a_1, a_1 + a_2, ... : np.cumsum, each sum rounded in turn *)
RECURSIVE CumSum(_)
CumSum(s) ==
    IF Len(s) <= 1 THEN s
    ELSE LET front == CumSum(SubSeq(s, 1, Len(s) - 1))
         IN  Append(front, FAdd(front[Len(front)], s[Len(s)]))

(* array + scalar *)
Shift(s, d) == IF s = <<>> THEN <<>> ELSE [i \in 1..Len(s) |-> FAdd(s[i], d)]

(* scalar - array *)
Minus(x, s) == IF s = <<>> THEN <<>> ELSE [i \in 1..Len(s) |-> FSub(x, s[i])]

(* scalar * array of whole numbers >= 0 *)
Times(x, ks) == IF ks = <<>> THEN <<>> ELSE [i \in 1..Len(ks) |-> FMulInt(ks[i], x)]

(* array[::-1] *)
Reverse(s) == IF s = <<>> THEN <<>> ELSE [i \in 1..Len(s) |-> s[Len(s) - i + 1]]

(* np.concatenate of a list of arrays *)
RECURSIVE Concatenate(_)
Concatenate(ss) == IF ss = <<>> THEN <<>> ELSE ss[1] \o Concatenate(Tail(ss))

(* the elements of a finite set of floats in increasing order *)
RECURSIVE SortSet(_)
SortSet(S) ==
    IF S = {} THEN <<>>
    ELSE LET m == CHOOSE x \in S : \A y \in S : FLe(x, y)
         IN  <<m>> \o SortSet(S \ {m})

Range(s) == {s[i] : i \in 1..Len(s)}

StrictlyIncreasing(s) == \A i \in 1..(Len(s) - 1) : FLt(s[i], s[i + 1])

(* all sequences over S of length 0..n *)
SeqsUpTo(S, n) == UNION {[1..k -> S] : k \in 0..n}

-----------------------------------------------------------------------------
(* Results of a call: a returned array, or the exception raised.           *)

Ok(v) == [status |-> "ok", val |-> v]

Raise(e) == [status |-> e, val |-> <<>>]

NotCalled == [status |-> "none", val |-> <<>>]

-----------------------------------------------------------------------------
(* GridSpec1d._add_pml_to_bounds                                           *)

(* np.arange(n, 0, -1) = n, n-1, ..., 1 *)
ArangeDown(n) == IF n <= 0 THEN <<>> ELSE [i \in 1..n |-> n - i + 1]

(* np.arange(1, n + 1) = 1, 2, ..., n *)
ArangeUp(n) == IF n <= 0 THEN <<>> ELSE [i \in 1..n |-> i]

(* variant: the absorber on the left repeats the last step *)
AddPmlLastStepBothSides(num_layers, bounds) ==
    IF Len(bounds) < 2 THEN bounds
    ELSE LET last_step  == FSub(bounds[Len(bounds)], bounds[Len(bounds) - 1])
             add_left   == Minus(bounds[1], Times(last_step, ArangeDown(num_layers[1])))
             add_right  == Shift(Times(last_step, ArangeUp(num_layers[2])),
                                 bounds[Len(bounds)])
         IN  add_left \o bounds \o add_right

AddPmlToBounds(num_layers, bounds) ==
    IF Len(bounds) < 2 THEN bounds
    ELSE LET first_step == FSub(bounds[2], bounds[1])
             last_step  == FSub(bounds[Len(bounds)], bounds[Len(bounds) - 1])
             add_left   == Minus(bounds[1], Times(first_step, ArangeDown(num_layers[1])))
             add_right  == Shift(Times(last_step, ArangeUp(num_layers[2])),
                                 bounds[Len(bounds)])
         IN  add_left \o bounds \o add_right

-----------------------------------------------------------------------------
(* The symmetry fold of GridSpec1d.make_coords (symmetry != 0 branch).     *)

(* np.argmin(np.abs(center - bound_coords)): the first index of the least  *)
(* distance (1-based here).  bound_coords is not empty.                    *)
ArgMinAbs(center, bound_coords) ==
    LET dist == [i \in 1..Len(bound_coords) |-> FAbs(FSub(center, bound_coords[i]))]
    IN  CHOOSE i \in 1..Len(bound_coords) :
            /\ \A j \in 1..Len(bound_coords) : FLe(dist[i], dist[j])
            /\ \A j \in 1..(i - 1) : FLt(dist[i], dist[j])

(* bound_coords[bound_coords >= center] *)
KeepAtLeast(bound_coords, lo) ==
    LET Test(x) == FGe(x, lo) IN SelectSeq(bound_coords, Test)

(* bound_coords[bound_coords <= hi] *)
KeepAtMost(bound_coords, hi) ==
    LET Test(x) == FLe(x, hi) IN SelectSeq(bound_coords, Test)

(* 2 * center - bound_coords[:0:-1]: the mirror images of all elements but *)
(* the first, last element first.                                          *)
MirrorTail(center, bound_coords) ==
    IF bound_coords = <<>> THEN <<>>
    ELSE Minus(FMulInt(2, center), Reverse(Tail(bound_coords)))

(* The offset is rounded, and so is each boundary it is added to: the      *)
(* boundary closest to the center may land on the center, just above it,   *)
(* or just below it, where the comparison with center drops it.            *)
SymmetryFold(bound_coords, center, symmetry) ==
    IF symmetry /= 0
    THEN LET center_ind == ArgMinAbs(center, bound_coords)
             shifted    == Shift(bound_coords, FSub(center, bound_coords[center_ind]))
             kept       == KeepAtLeast(shifted, center)
         IN  MirrorTail(center, kept) \o kept
    ELSE bound_coords

-----------------------------------------------------------------------------
(* UniformGrid._make_coords_initial                                        *)

(* variant: the step is not adjusted to the size *)
UniformCoordsNoSnap(dl, center, size) ==
    LET num_cells == Max(Ceil(FDivInt(size, dl)), 1)
        start     == FSub(center, FDivInt(size, 2))
    IN  Shift(Times(FromInt(dl), [k \in 1..(num_cells + 1) |-> k - 1]), start)

UniformCoords(dl, center, size) ==
    LET num_cells  == Max(Ceil(FDivInt(size, dl)), 1)
        dl_snapped == IF FLt(Zero, size) THEN FDivInt(size, num_cells) ELSE FromInt(dl)
        start      == FSub(center, FDivInt(size, 2))
    IN  Shift(Times(dl_snapped, [k \in 1..(num_cells + 1) |-> k - 1]), start)

-----------------------------------------------------------------------------
(* CustomGrid._make_coords_initial                                         *)

(* while bound_coords[0] - dl_min >= bound_min: insert at the front *)
RECURSIVE RepeatBeginning(_, _, _)
RepeatBeginning(bound_coords, dl_min, bound_min) ==
    IF FGe(FSub(bound_coords[1], dl_min), bound_min)
    THEN RepeatBeginning(<<FSub(bound_coords[1], dl_min)>> \o bound_coords,
                         dl_min, bound_min)
    ELSE bound_coords

(* while bound_coords[-1] + dl_max <= bound_max: append *)
RECURSIVE RepeatEnd(_, _, _)
RepeatEnd(bound_coords, dl_max, bound_max) ==
    IF FLe(FAdd(bound_coords[Len(bound_coords)], dl_max), bound_max)
    THEN RepeatEnd(Append(bound_coords, FAdd(bound_coords[Len(bound_coords)], dl_max)),
                   dl_max, bound_max)
    ELSE bound_coords

(* np.append(0.0, np.cumsum(dl)) placed with its middle on the center *)
CenteredCumSum(dl, center) ==
    LET raw == <<Zero>> \o CumSum(Floats(dl))
    IN  Shift(raw, FSub(center, FDivInt(raw[Len(raw)], 2)))

CustomCoords(dl, center, size) ==
    LET bound_min == FSub(center, FDivInt(size, 2))
        bound_max == FAdd(center, FDivInt(size, 2))
        chopped   == KeepAtLeast(KeepAtMost(CenteredCumSum(dl, center), bound_max),
                                 bound_min)
    IN  IF dl = <<>> THEN Raise("IndexError")            \* dl[0]
        ELSE IF chopped = <<>> THEN Raise("IndexError")  \* bound_coords[0]
        ELSE Ok(RepeatEnd(RepeatBeginning(chopped, FromInt(dl[1]), bound_min),
                          FromInt(dl[Len(dl)]), bound_max))

-----------------------------------------------------------------------------
(* AutoGrid._make_coords_initial.  The mesher is outside this file: its    *)
(* two calls are modelled by their contract, as any choice of interval     *)
(* boundaries and of positive steps that exactly cover each interval.      *)

MeshPoints == {FromHalves(h) : h \in (-MaxMesh)..MaxMesh}

(* steps between the consecutive points of P that lie in [lo, hi] *)
StepsWithin(P, lo, hi) ==
    LET pts == SortSet({x \in P : FLe(lo, x) /\ FLe(x, hi)})
    IN  [i \in 1..(Len(pts) - 1) |-> FSub(pts[i + 1], pts[i])]

MesherOutput(P, cuts) ==
    LET lo == CHOOSE x \in P : \A y \in P : FLe(x, y)
        hi == CHOOSE x \in P : \A y \in P : FGe(x, y)
        interval_coords == SortSet(cuts \cup {lo, hi})
    IN  [interval_coords |-> interval_coords,
         dl_list |-> [i \in 1..(Len(interval_coords) - 1) |->
                         StepsWithin(P, interval_coords[i], interval_coords[i + 1])]]

(* the points of P strictly between its least and its greatest *)
Interior(P) == {x \in P : (\E y \in P : FLt(y, x)) /\ (\E y \in P : FLt(x, y))}

MesherOutputs ==
    UNION {{MesherOutput(P, cuts) :
               cuts \in {c \in SUBSET Interior(P) : Cardinality(c) <= MaxIntervals - 1}} :
           P \in {Q \in SUBSET MeshPoints : Cardinality(Q) >= 2}}

NoMesh == [interval_coords |-> <<>>, dl_list |-> <<>>]

AutoCoords(interval_coords, dl_list) ==
    Shift(<<Zero>> \o CumSum(Concatenate(dl_list)), interval_coords[1])

-----------------------------------------------------------------------------
(* GridSpec1d.make_coords: initial boundaries, symmetry fold, PML layers.  *)
(* The intermediate arrays are kept so that each stage can be examined.    *)

InitialCoords(g, center, size, mesh) ==
    CASE g.kind = "UniformGrid" -> Ok(UniformCoords(g.dl[1], center, size))
      [] g.kind = "CustomGrid"  -> CustomCoords(g.dl, center, size)
      [] g.kind = "AutoGrid"    -> Ok(AutoCoords(mesh.interval_coords, mesh.dl_list))

MakeCoordsOf(g, center, size, symmetry, num_pml_layers, mesh) ==
    LET first == InitialCoords(g, center, size, mesh)
    IN  IF first.status /= "ok"
        THEN [initial |-> first, folded |-> <<>>, out |-> first]
        ELSE LET sym == SymmetryFold(first.val, center, symmetry)
             IN  [initial |-> first, folded |-> sym,
                  out |-> Ok(AddPmlToBounds(num_pml_layers, sym))]

-----------------------------------------------------------------------------
(* GridSpec.get_wavelength.  Frequencies are whole numbers of MHz and a    *)
(* wavelength is a fraction <<numerator, denominator>> of micrometers in   *)
(* lowest terms; None is the empty tuple.                                  *)

(* speed of light, um * MHz (2.99792458e14 um / s) *)
C_0 == 299792458

(* 1 / rtol of np.isclose (rtol = 1e-5); atol = 1e-8 Hz is below one MHz   *)
RelTolInv == 100000

None == <<>>

Fraction(n, d) == <<n \div GCD(n, d), d \div GCD(n, d)>>

(* np.isclose(a, b): |a - b| <= atol + rtol * |b| *)
IsClose(a, b) == Abs(a - b) <= Abs(b) \div RelTolInv

(* variant: only grid_x is looked at *)
AutoGridUsedXOnly(gs) == gs.grids[1] = "AutoGrid"

AutoGridUsed(gs) == \E i \in 1..3 : gs.grids[i] = "AutoGrid"

GetWavelength(gs, srcs) ==
    IF gs.wavelength /= None \/ ~AutoGridUsed(gs)
    THEN Ok(gs.wavelength)
    ELSE IF Len(srcs) = 0
    THEN Raise("SetupError")
    ELSE IF Len(srcs) > 0 /\ ~(\A i \in 1..Len(srcs) : IsClose(srcs[i], srcs[1]))
    THEN Raise("SetupError")
    ELSE Ok(Fraction(C_0, srcs[1]))

-----------------------------------------------------------------------------
(* Inputs.                                                                 *)

GridKinds == {"UniformGrid", "CustomGrid", "AutoGrid"}

Symmetries == {-1, 0, 1}

(* centers and sizes that are whole numbers: every operation of the code   *)
(* on them is exact                                                        *)
Centers == {FromInt(c) : c \in (-MaxCenter)..MaxCenter}

Sizes == {FromInt(s) : s \in 0..MaxSize}

(* centers that are not binary fractions: 0.1 and -0.1 *)
RoundingCenters == {Tenth, Neg(Tenth)}

PmlLayers == (0..MaxPml) \X (0..MaxPml)

(* source center frequencies, MHz: two that agree within rtol, one that    *)
(* does not                                                                *)
Freqs == {200000000, 200000001, 200010000}

Wavelengths == {None, <<0, 1>>, <<1, 1>>, <<3, 2>>}

(* A 1D grid specification: dl holds the step of a UniformGrid or the      *)
(* steps of a CustomGrid; auto holds <<min_steps_per_wvl, max_scale>> of   *)
(* an AutoGrid, max_scale in tenths.  A field a kind does not have is      *)
(* empty.                                                                  *)
NoGrid == [kind |-> "none", dl |-> <<>>, auto |-> <<>>]

(* values tried for AutoGrid.min_steps_per_wvl: below the minimum and the  *)
(* minimum                                                                 *)
MinStepsPerWvlValues == {5, 6}

(* values tried for AutoGrid.max_scale, in tenths: 1.1, 1.2, the default   *)
(* 1.4, and 2.0                                                            *)
MaxScaleValues == {11, 12, 14, 20}

NoArgs == [center |-> Zero, size |-> Zero, symmetry |-> 0, num_pml_layers |-> <<0, 0>>]

NoGridSpec == [grids |-> <<"none", "none", "none">>, wavelength |-> None]

-----------------------------------------------------------------------------
(* State machine.  Each behaviour constructs one object and makes one call *)
(* on it: the objects are immutable and the calls keep nothing between     *)
(* them, so a second call reaches no state a first call does not.          *)

Init ==
    /\ op = "init"
    /\ grid = NoGrid
    /\ args = NoArgs
    /\ initial = NotCalled
    /\ folded = <<>>
    /\ out = NotCalled
    /\ grid_spec = NoGridSpec
    /\ sources = <<>>
    /\ wl = NotCalled

(* UniformGrid(dl=d); dl is a pd.PositiveFloat *)
ConstructUniformGrid(d) ==
    /\ op = "init"
    /\ IF d > 0
       THEN /\ op' = "UniformGrid"
            /\ grid' = [kind |-> "UniformGrid", dl |-> <<d>>, auto |-> <<>>]
       ELSE /\ op' = "ValidationError"
            /\ grid' = grid
    /\ UNCHANGED <<args, initial, folded, out, grid_spec, sources, wl>>

(* CustomGrid(dl=dl); dl is a List[pd.PositiveFloat] *)
ValidCustomDl(dl) == \A i \in 1..Len(dl) : dl[i] > 0

ConstructCustomGrid(dl) ==
    /\ op = "init"
    /\ IF ValidCustomDl(dl)
       THEN /\ op' = "CustomGrid"
            /\ grid' = [kind |-> "CustomGrid", dl |-> dl, auto |-> <<>>]
       ELSE /\ op' = "ValidationError"
            /\ grid' = grid
    /\ UNCHANGED <<args, initial, folded, out, grid_spec, sources, wl>>

(* AutoGrid(min_steps_per_wvl=..., max_scale=...):                        *)
(* min_steps_per_wvl has ge=6.0, max_scale has ge=1.2 and lt=2.0           *)
MinStepsPerWvlGe == 6

MaxScaleGe == 12

MaxScaleLt == 20

ValidAutoParams(min_steps_per_wvl, max_scale) ==
    /\ min_steps_per_wvl >= MinStepsPerWvlGe
    /\ max_scale >= MaxScaleGe
    /\ max_scale < MaxScaleLt

ConstructAutoGrid(min_steps_per_wvl, max_scale) ==
    /\ op = "init"
    /\ IF ValidAutoParams(min_steps_per_wvl, max_scale)
       THEN /\ op' = "AutoGrid"
            /\ grid' = [kind |-> "AutoGrid", dl |-> <<>>,
                        auto |-> <<min_steps_per_wvl, max_scale>>]
       ELSE /\ op' = "ValidationError"
            /\ grid' = grid
    /\ UNCHANGED <<args, initial, folded, out, grid_spec, sources, wl>>

(* what the mesher may answer during a call on g: it is called by an      *)
(* AutoGrid only                                                           *)
MeshChoices(g) == IF g.kind = "AutoGrid" THEN MesherOutputs ELSE {NoMesh}

MakeCoords(center, size, symmetry, num_pml_layers, mesh) ==
    /\ op \in GridKinds
    /\ LET r == MakeCoordsOf(grid, center, size, symmetry, num_pml_layers, mesh)
       IN  /\ initial' = r.initial
           /\ folded' = r.folded
           /\ out' = r.out
    /\ op' = "make_coords"
    /\ args' = [center |-> center, size |-> size, symmetry |-> symmetry,
                num_pml_layers |-> num_pml_layers]
    /\ UNCHANGED <<grid, grid_spec, sources, wl>>

(* GridSpec(grid_x=..., grid_y=..., grid_z=..., wavelength=...) *)
ConstructGridSpec(grids, wavelength) ==
    /\ op = "init"
    /\ op' = "GridSpec"
    /\ grid_spec' = [grids |-> grids, wavelength |-> wavelength]
    /\ UNCHANGED <<grid, args, initial, folded, out, sources, wl>>

CallGetWavelength(srcs) ==
    /\ op = "GridSpec"
    /\ op' = "get_wavelength"
    /\ sources' = srcs
    /\ wl' = GetWavelength(grid_spec, srcs)
    /\ UNCHANGED <<grid, args, initial, folded, out, grid_spec>>

(* one call of make_coords on the grid constructed, with any arguments and *)
(* any answer of the mesher                                                *)
CallMakeCoords ==
    /\ op \in GridKinds
    /\ \E mesh \in MeshChoices(grid), center \in Centers, size \in Sizes,
          symmetry \in Symmetries, num_pml_layers \in PmlLayers :
          MakeCoords(center, size, symmetry, num_pml_layers, mesh)

(* the same call with a center that is not a binary fraction *)
CallMakeCoordsRounding ==
    /\ op \in GridKinds
    /\ \E mesh \in MeshChoices(grid), center \in RoundingCenters, size \in Sizes,
          symmetry \in Symmetries, num_pml_layers \in PmlLayers :
          MakeCoords(center, size, symmetry, num_pml_layers, mesh)

Next ==
    \/ \E d \in 0..MaxDl : ConstructUniformGrid(d)
    \/ \E dl \in SeqsUpTo(0..MaxDl, MaxLen) : ConstructCustomGrid(dl)
    \/ \E min_steps_per_wvl \in MinStepsPerWvlValues, max_scale \in MaxScaleValues :
          ConstructAutoGrid(min_steps_per_wvl, max_scale)
    \/ CallMakeCoords

Spec == Init /\ [][Next]_vars

NextRounding ==
    \/ \E d \in 0..MaxDl : ConstructUniformGrid(d)
    \/ \E dl \in SeqsUpTo(0..MaxDl, MaxLen) : ConstructCustomGrid(dl)
    \/ \E min_steps_per_wvl \in MinStepsPerWvlValues, max_scale \in MaxScaleValues :
          ConstructAutoGrid(min_steps_per_wvl, max_scale)
    \/ CallMakeCoordsRounding

SpecRounding == Init /\ [][NextRounding]_vars

NextWavelength ==
    \/ \E grids \in [1..3 -> GridKinds], wavelength \in Wavelengths :
          ConstructGridSpec(grids, wavelength)
    \/ \E srcs \in SeqsUpTo(Freqs, MaxSources) : CallGetWavelength(srcs)

SpecWavelength == Init /\ [][NextWavelength]_vars

-----------------------------------------------------------------------------
(* Properties.                                                             *)

Called == op = "make_coords"

Returned == Called /\ out.status = "ok"

CenterPos == args.center

BoundMin == FSub(args.center, FDivInt(args.size, 2))

BoundMax == FAdd(args.center, FDivInt(args.size, 2))

First(s) == s[1]

Last(s) == s[Len(s)]

Covers(s) == s /= <<>> /\ FLe(First(s), BoundMin) /\ FGe(Last(s), BoundMax)

Steps(s) == {FSub(s[i + 1], s[i]) : i \in 1..(Len(s) - 1)}

(* the whole number a float64 with no fractional part stands for *)
Whole(x) == x[1] \div WholeHi

(* ceil(a / b) for whole numbers a >= 0, b > 0 *)
CeilRatio(a, b) == (a + b - 1) \div b

RECURSIVE SeqSum(_)
SeqSum(s) == IF s = <<>> THEN 0 ELSE s[1] + SeqSum(Tail(s))

(* C1: the boundaries CustomGrid._make_coords_initial returns for a        *)
(* non-empty dl cover the domain: first <= center - size/2 and             *)
(* last >= center + size/2.                                                *)
C1_CustomCoversDomain ==
    (Called /\ grid.kind = "CustomGrid" /\ grid.dl /= <<>> /\ initial.status = "ok")
        => Covers(initial.val)

(* C2 as stated: for every size >= 0 the UniformGrid boundaries start at   *)
(* center - size/2, end at center + size/2 and have max(ceil(size/dl), 1)  *)
(* intervals of one size.                                                  *)
C2_UniformSpansExactly ==
    (Called /\ grid.kind = "UniformGrid") =>
        /\ initial.status = "ok"
        /\ First(initial.val) = BoundMin
        /\ Last(initial.val) = BoundMax
        /\ Len(initial.val) = Max(CeilRatio(Whole(args.size), grid.dl[1]), 1) + 1
        /\ Cardinality(Steps(initial.val)) = 1

(* C2 amended: the UniformGrid boundaries start at center - size/2 and     *)
(* have max(ceil(size/dl), 1) intervals of one size; they end at           *)
(* center + size/2 when size > 0, and are the one cell [center,            *)
(* center + dl] when size = 0.                                             *)
C2_UniformSpansPositiveSize ==
    (Called /\ grid.kind = "UniformGrid") =>
        /\ initial.status = "ok"
        /\ First(initial.val) = BoundMin
        /\ Len(initial.val) = Max(CeilRatio(Whole(args.size), grid.dl[1]), 1) + 1
        /\ Cardinality(Steps(initial.val)) = 1
        /\ FLt(Zero, args.size) => Last(initial.val) = BoundMax
        /\ args.size = Zero =>
               initial.val = <<CenterPos, FAdd(CenterPos, FromInt(grid.dl[1]))>>

(* a uniform grid whose step had to be made smaller than dl to fit *)
C2_Witness ==
    /\ Called
    /\ grid.kind = "UniformGrid"
    /\ FLt(Zero, args.size)
    /\ Len(initial.val) >= 3
    /\ FLt(FSub(initial.val[2], initial.val[1]), FromInt(grid.dl[1]))

(* C3: _add_pml_to_bounds on (a, p) and b returns b unchanged when b has   *)
(* fewer than 2 points, and otherwise the a points b[0] - k*(b[1] - b[0])  *)
(* for k = a..1, then b, then the p points b[-1] + k*(b[-1] - b[-2]) for   *)
(* k = 1..p: len(b) + a + p boundaries in all.                             *)
C3_PmlExtension ==
    Returned =>
        LET b == folded
            n == Len(folded)
            a == args.num_pml_layers[1]
            p == args.num_pml_layers[2]
        IN  IF n < 2 THEN out.val = b
            ELSE /\ Len(out.val) = n + a + p
                 /\ \A i \in 1..a :
                       out.val[i] = FSub(b[1], FMulInt(a - i + 1, FSub(b[2], b[1])))
                 /\ \A i \in 1..n : out.val[a + i] = b[i]
                 /\ \A k \in 1..p :
                       out.val[a + n + k] = FAdd(b[n], FMulInt(k, FSub(b[n], b[n - 1])))

(* layers on both sides of boundaries whose two edge steps differ *)
C3_Witness ==
    /\ Returned
    /\ Len(folded) >= 3
    /\ args.num_pml_layers[1] >= 2
    /\ args.num_pml_layers[2] >= 1
    /\ FSub(folded[2], folded[1]) /= FSub(Last(folded), folded[Len(folded) - 1])
    /\ Len(out.val) = Len(folded) + args.num_pml_layers[1] + args.num_pml_layers[2]

(* Two floats are near when they differ by no more than 2^-40: far more    *)
(* than the rounding of any operation on the coordinates (2^-49 at most),  *)
(* far less than any step.                                                 *)
RoundingTolerance == <<0, 2^16>>

Near(x, y) == FLe(FAbs(FSub(x, y)), RoundingTolerance)

(* C4: with a nonzero symmetry flag the folded boundaries are their own    *)
(* mirror image about the center and the center is one of them; with a     *)
(* zero flag the boundaries are left as they were.  The mirror image is    *)
(* taken to floating-point precision: for every boundary x there is a      *)
(* boundary near 2 * center - x, and there is a boundary near the center.  *)
C4_FoldIsMirrorSymmetric ==
    (Returned /\ StrictlyIncreasing(initial.val)) =>
        IF args.symmetry /= 0
        THEN /\ \E i \in 1..Len(folded) : Near(folded[i], CenterPos)
             /\ \A i \in 1..Len(folded) : \E j \in 1..Len(folded) :
                   Near(folded[j], FSub(FMulInt(2, CenterPos), folded[i]))
        ELSE folded = initial.val

(* C5: folding already folded boundaries again, with the same center and   *)
(* nonzero flag, returns them unchanged: as many boundaries, each near the *)
(* one it was.                                                             *)
C5_FoldIdempotent ==
    (Returned /\ args.symmetry /= 0) =>
        /\ folded /= <<>>
        /\ LET again == SymmetryFold(folded, CenterPos, args.symmetry)
           IN  /\ Len(again) = Len(folded)
               /\ \A i \in 1..Len(folded) : Near(again[i], folded[i])

(* C6: get_wavelength returns the explicit wavelength (None included) when *)
(* one is set or no axis is an AutoGrid, whatever the sources; otherwise   *)
(* it raises SetupError for no sources, raises SetupError when a source    *)
(* frequency is not close to the first one, and else returns C_0 / freq0   *)
(* of the first source.                                                    *)
C6_WavelengthDecisionTable ==
    (op = "get_wavelength") =>
        LET explicit == grid_spec.wavelength /= None
            no_auto  == \A i \in 1..3 : grid_spec.grids[i] /= "AutoGrid"
        IN  IF explicit \/ no_auto
            THEN wl.status = "ok" /\ wl.val = grid_spec.wavelength
            ELSE IF sources = <<>>
            THEN wl.status = "SetupError"
            ELSE IF \E i \in 1..Len(sources) : ~IsClose(sources[i], sources[1])
            THEN wl.status = "SetupError"
            ELSE /\ wl.status = "ok"
                 /\ wl.val = Fraction(C_0, sources[1])

(* the wavelength is taken from two sources that differ but agree within   *)
(* tolerance, on a grid whose only AutoGrid axis is z                      *)
C6_Witness ==
    /\ op = "get_wavelength"
    /\ grid_spec.wavelength = None
    /\ grid_spec.grids = <<"UniformGrid", "CustomGrid", "AutoGrid">>
    /\ Len(sources) = 2
    /\ sources[1] /= sources[2]
    /\ wl.status = "ok"
    /\ wl.val = Fraction(C_0, sources[1])

(* C7: a CustomGrid with an empty dl is rejected when it is constructed,   *)
(* so none exists, and none reaches _make_coords_initial.                  *)
C7_EmptyDlRejectedAtConstruction ==
    /\ grid.kind = "CustomGrid" => grid.dl /= <<>>
    /\ (Called /\ grid.kind = "CustomGrid") => grid.dl /= <<>>

(* C8: whenever make_coords of a UniformGrid or of a CustomGrid with       *)
(* positive, non-empty steps returns, the result has at least 2 boundaries *)
(* and is strictly increasing.                                             *)
C8_AtLeastTwoIncreasing ==
    (Returned /\ grid.kind \in {"UniformGrid", "CustomGrid"} /\ grid.dl /= <<>>) =>
        /\ Len(out.val) >= 2
        /\ StrictlyIncreasing(out.val)

(* C9: when sum(dl) >= size, CustomGrid._make_coords_initial repeats no    *)
(* step: every boundary it returns is one of the centered cumulative sums. *)
C9_NoExtensionWhenCovered ==
    (Called /\ grid.kind = "CustomGrid" /\ initial.status = "ok"
        /\ SeqSum(grid.dl) >= Whole(args.size)) =>
        Range(initial.val) \subseteq Range(CenteredCumSum(grid.dl, args.center))

(* C10: with a nonzero symmetry flag and no PML layers, strictly           *)
(* increasing initial boundaries that cover the domain still cover it in   *)
(* the result of make_coords.                                              *)
C10_FoldKeepsCoverage ==
    (Returned /\ args.symmetry /= 0 /\ args.num_pml_layers = <<0, 0>>
        /\ StrictlyIncreasing(initial.val) /\ Covers(initial.val)) =>
        Covers(out.val)

====
